---------------------------- MODULE Spec2Model ----------------------------
(***************************************************************************)
(* A model of babel-preset-env's src/index.js: target normalisation        *)
(* (getTargets), the requirement decision (isPluginRequired) and the       *)
(* assembly of the preset (buildPreset) with its process-wide debug latch. *)
(*                                                                         *)
(* JavaScript values are records [t, n, s]: t is the typeof tag (with      *)
(* "array" told apart from "object"), n the payload of a number or a       *)
(* boolean, s the payload of a string.  A number x is held in fixed point  *)
(* as the integer 10*x, so 49 is Num(490) and 6.9 is Num(69); Ver(49, 0)   *)
(* and Ver(6, 9) write the same values.  An object is a function from its  *)
(* own keys to values; a missing key reads as Undefined.                   *)
(***************************************************************************)
EXTENDS Integers, Sequences, FiniteSets, TLC

VARIABLES
    targets,        \* the caller's target object (the argument of getTargets / isPluginRequired)
    queryResult,    \* what browserslist() returns for the browsers query of the call
    plugin,         \* the capability entry handed to isPluginRequired
    opts,           \* the options object handed to buildPreset
    outcome,        \* the last call: [op, threw, error, value]
    hasBeenLogged,  \* src/index.js:139, the process-wide latch
    printed,        \* whether the last buildPreset call wrote its diagnostics to the console
    history         \* one entry per buildPreset call of the process, oldest first

vars == <<targets, queryResult, plugin, opts, outcome, hasBeenLogged, printed, history>>

---------------------------------------------------------------------------
(* JavaScript values *)

Num(k) == [t |-> "number", n |-> k, s |-> ""]
Ver(major, tenth) == Num(10 * major + tenth)
NaN == [t |-> "number", n |-> 0, s |-> "NaN"]
Infinity == [t |-> "number", n |-> 0, s |-> "Infinity"]
Str(x) == [t |-> "string", n |-> 0, s |-> x]
Bool(b) == [t |-> "boolean", n |-> IF b THEN 1 ELSE 0, s |-> ""]
Arr(x) == [t |-> "array", n |-> 0, s |-> x]
Obj(x) == [t |-> "object", n |-> 0, s |-> x]
Undefined == [t |-> "undefined", n |-> 0, s |-> ""]

typeof(v) == IF v.t = "array" THEN "object" ELSE v.t

isNaN(v) == v = NaN \/ v = Undefined

\* ToBoolean: what `if (v)`, `!v` and `v || w` test.
Truthy(v) ==
    CASE v.t = "number" -> v = Infinity \/ (v # NaN /\ v.n # 0)
      [] v.t = "string" -> v.s # ""
      [] v.t = "boolean" -> v.n = 1
      [] v.t = "undefined" -> FALSE
      [] OTHER -> TRUE

\* a < b for numbers and booleans (ToNumber of a boolean is 0 or 1); a
\* comparison with NaN (undefined converts to NaN) is false.
JSLess(a, b) ==
    LET num(v) == IF v.t = "boolean" THEN Num(10 * v.n) ELSE v
        x == num(a)
        y == num(b)
    IN  IF isNaN(x) \/ isNaN(y) \/ x.t # "number" \/ y.t # "number" THEN FALSE
        ELSE IF x = Infinity THEN FALSE
        ELSE IF y = Infinity THEN TRUE
        ELSE x.n < y.n

MathMin(a, b) == IF isNaN(a) \/ isNaN(b) THEN NaN ELSE IF JSLess(b, a) THEN b ELSE a

\* The spelling of the strings the code reads character by character: the
\* versions it parses and the names it matches.
Spell ==
       ("1" :> <<"1">>)
    @@ ("1.3.2" :> <<"1", ".", "3", ".", "2">>)
    @@ ("99.9" :> <<"9", "9", ".", "9">>)
    @@ ("abc" :> <<"a", "b", "c">>)
    @@ ("6.9.1" :> <<"6", ".", "9", ".", "1">>)
    @@ ("49" :> <<"4", "9">>)
    @@ ("50" :> <<"5", "0">>)
    @@ ("9.0-9.2" :> <<"9", ".", "0", "-", "9", ".", "2">>)
    @@ ("all" :> <<"a", "l", "l">>)
    @@ ("transform-regenerator" :> <<"t", "r", "a", "n", "s", "f", "o", "r", "m", "-", "r", "e",
                                     "g", "e", "n", "e", "r", "a", "t", "o", "r">>)
    @@ ("es6.map" :> <<"e", "s", "6", ".", "m", "a", "p">>)
    @@ ("web.timers" :> <<"w", "e", "b", ".", "t", "i", "m", "e", "r", "s">>)

Chars(x) == Spell[x]

DigitValue ==
    ("0" :> 0) @@ ("1" :> 1) @@ ("2" :> 2) @@ ("3" :> 3) @@ ("4" :> 4) @@
    ("5" :> 5) @@ ("6" :> 6) @@ ("7" :> 7) @@ ("8" :> 8) @@ ("9" :> 9)
IsDigit(c) == c \in DOMAIN DigitValue
DigitChar(d) == CHOOSE c \in DOMAIN DigitValue : DigitValue[c] = d

\* The length of the longest run of digits that cs starts with: what \d+ and
\* the number parsers consume.
RECURSIVE DigitRun(_)
DigitRun(cs) == IF cs # <<>> /\ IsDigit(Head(cs)) THEN 1 + DigitRun(Tail(cs)) ELSE 0

RECURSIVE DigitsValue(_)
DigitsValue(cs) ==
    IF cs = <<>> THEN 0 ELSE 10 * DigitsValue(SubSeq(cs, 1, Len(cs) - 1)) + DigitValue[cs[Len(cs)]]

RECURSIVE Digits(_)
Digits(k) == IF k < 10 THEN <<DigitChar(k)>> ELSE Append(Digits(k \div 10), DigitChar(k % 10))

Rest(cs, k) == SubSeq(cs, k + 1, Len(cs))

\* parseInt of the characters of an unsigned decimal string: the leading
\* digits, NaN when there are none.
parseIntChars(cs) ==
    IF DigitRun(cs) = 0 THEN NaN ELSE Num(10 * DigitsValue(SubSeq(cs, 1, DigitRun(cs))))

parseInt(x) == parseIntChars(Chars(x))

\* parseFloat of the characters of an unsigned decimal string: the leading
\* digits and, after a ".", the digits that follow.  The fixed point keeps
\* one fractional digit, which is exact for the strings of the model.
parseFloatChars(cs) ==
    LET k == DigitRun(cs)
        after == Rest(cs, k)
        frac == IF after # <<>> /\ Head(after) = "." /\ DigitRun(Tail(after)) > 0
                THEN DigitValue[after[2]] ELSE 0
    IN  IF k = 0 THEN NaN ELSE Num(10 * DigitsValue(SubSeq(cs, 1, k)) + frac)

parseFloat(x) == parseFloatChars(Chars(x))

\* The characters of String(v).
String(v) ==
    CASE v.t = "string" -> Chars(v.s)
      [] v.t = "boolean" -> IF v.n = 1 THEN <<"t", "r", "u", "e">> ELSE <<"f", "a", "l", "s", "e">>
      [] v.t = "number" /\ v.s = "" ->
            IF v.n % 10 = 0 THEN Digits(v.n \div 10)
            ELSE Digits(v.n \div 10) \o <<".">> \o Digits(v.n % 10)
      [] OTHER -> <<"?">>

---------------------------------------------------------------------------
(* Objects *)

EmptyObject == [k \in {} |-> Undefined]
Keys(o) == DOMAIN o
Get(o, k) == IF k \in DOMAIN o THEN o[k] ELSE Undefined
Put(o, k, v) == [x \in DOMAIN o \cup {k} |-> IF x = k THEN v ELSE o[x]]
Delete(o, k) == [x \in DOMAIN o \ {k} |-> o[x]]
Range(seq) == {seq[i] : i \in DOMAIN seq}

Returned(v) == [threw |-> FALSE, error |-> "", value |-> v]
Threw(e) == [threw |-> TRUE, error |-> e, value |-> Undefined]

---------------------------------------------------------------------------
(* The requirement decision and the target normalisation, src/index.js:19-137 *)

\* requiredForEnvironment comparing with <= where the code compares with <.
requiredForEnvironmentNotStrict(supportedEnvironments, entry, environment) ==
    IF ~Truthy(Get(entry, environment)) THEN Returned(TRUE)
    ELSE IF typeof(supportedEnvironments[environment]) = "string"
    THEN Threw("Target version must be a number")
    ELSE Returned(~JSLess(entry[environment], supportedEnvironments[environment]))

\* requiredForEnvironment testing the type of the targeted version before it
\* looks the environment up in the capability entry.
requiredForEnvironmentTypeFirst(supportedEnvironments, entry, environment) ==
    IF typeof(supportedEnvironments[environment]) = "string"
    THEN Threw("Target version must be a number")
    ELSE IF ~Truthy(Get(entry, environment)) THEN Returned(TRUE)
    ELSE Returned(JSLess(supportedEnvironments[environment], entry[environment]))

\* The filter callback of isPluginRequired, lines 29-42.
requiredForEnvironment(supportedEnvironments, entry, environment) ==
    IF ~Truthy(Get(entry, environment)) THEN Returned(TRUE)
    ELSE LET lowestImplementedVersion == entry[environment]
             lowestTargetedVersion == supportedEnvironments[environment]
         IN  IF typeof(lowestTargetedVersion) = "string"
             THEN Threw("Target version must be a number")
             ELSE Returned(JSLess(lowestTargetedVersion, lowestImplementedVersion))

\* Lines 24-44, on the targets `normalized` that lines 20-22 leave.  filter()
\* visits every environment, so the call throws when the callback throws for
\* any of them.
requiredForTargets(normalized, entry) ==
    LET supportedEnvironments == normalized.value
        targetEnvironments == Keys(supportedEnvironments)
        isRequiredForEnvironments ==
            {environment \in targetEnvironments :
                requiredForEnvironment(supportedEnvironments, entry, environment).value}
    IN  IF normalized.threw THEN Threw(normalized.error)
        ELSE IF targetEnvironments = {} THEN Returned(TRUE)
        ELSE IF \E environment \in targetEnvironments :
                    requiredForEnvironment(supportedEnvironments, entry, environment).threw
        THEN Threw("Target version must be a number")
        ELSE Returned(isRequiredForEnvironments # {})

isBrowsersQueryValid(browsers) == typeof(browsers) = "string" \/ browsers.t = "array"

browserNameMap ==
       ("chrome" :> "chrome")
    @@ ("edge" :> "edge")
    @@ ("firefox" :> "firefox")
    @@ ("ie" :> "ie")
    @@ ("ios_saf" :> "ios")
    @@ ("safari" :> "safari")

\* Lines 65-67, with the name normalised and the version parsed.
keepLowest(all, normalizedBrowserName, parsedBrowserVersion) ==
    IF Truthy(normalizedBrowserName) /\ ~isNaN(parsedBrowserVersion)
    THEN Put(all, normalizedBrowserName.s,
             MathMin(IF Truthy(Get(all, normalizedBrowserName.s))
                     THEN Get(all, normalizedBrowserName.s) ELSE Infinity,
                     parsedBrowserVersion))
    ELSE all

\* One step of the reduce of getLowestVersions, lines 62-68.  A release
\* string "<name> <version>" is held already split at its space, as
\* [name, version].
lowestVersionsStep(all, browser) ==
    keepLowest(all,
               IF browser.name \in DOMAIN browserNameMap
               THEN Str(browserNameMap[browser.name]) ELSE Undefined,
               parseInt(browser.version))

RECURSIVE reduceLowestVersions(_, _)
reduceLowestVersions(all, browsers) ==
    IF browsers = <<>> THEN all
    ELSE reduceLowestVersions(lowestVersionsStep(all, Head(browsers)), Tail(browsers))

getLowestVersions(browsers) == reduceLowestVersions(EmptyObject, browsers)

\* mergeBrowsers keeping the query's value where both objects have the key.
mergeBrowsersQueryWins(fromQuery, fromTarget) ==
    [targKey \in Keys(fromQuery) \cup (Keys(fromTarget) \ {"browsers"}) |->
        IF targKey \in Keys(fromQuery) THEN fromQuery[targKey] ELSE fromTarget[targKey]]

\* The reduce writes into fromQuery and returns it; fromTarget is only read.
mergeBrowsers(fromQuery, fromTarget) ==
    [targKey \in Keys(fromQuery) \cup (Keys(fromTarget) \ {"browsers"}) |->
        IF targKey \in Keys(fromTarget) \ {"browsers"} THEN fromTarget[targKey] ELSE fromQuery[targKey]]

\* process.versions.node of the host that runs the preset.
processVersionsNode == "6.9.1"

getCurrentNodeVersion == parseFloat(processVersionsNode)

\* data/electron-to-chromium: "MAJOR.MINOR" -> Chromium version, the keys
\* spelled out.
electronToChromium ==
       (<<"1", ".", "0">> :> Ver(49, 0))
    @@ (<<"1", ".", "3">> :> Ver(52, 0))

\* semverOf without the special case of "1".
semverOfAsGiven(asString) == asString

\* Lines 86-90: the characters of semverVer.
semverOf(asString) == IF asString = <<"1">> THEN <<"1", ".", "0">> ELSE asString

\* semverVer.match(/^(\d+\.\d+)/): the captured group, or <<>> for no match.
matchMajorMinor(semverVer) ==
    LET major == DigitRun(semverVer)
        after == Rest(semverVer, major)
        minor == IF after # <<>> /\ Head(after) = "." THEN DigitRun(Tail(after)) ELSE 0
    IN  IF major > 0 /\ minor > 0 THEN SubSeq(semverVer, 1, major + 1 + minor) ELSE <<>>

\* Lines 93-102, on the match m.
chromiumFor(m) ==
    IF m = <<>> THEN Threw("Electron version must be a semver version")
    ELSE IF ~Truthy(Get(electronToChromium, m))
    THEN Threw("Electron version is either too old or too new")
    ELSE Returned(electronToChromium[m])

electronVersionToChromeVersion(version) == chromiumFor(matchMajorMinor(semverOf(String(version))))

\* _extends(target, source): the own keys of source written onto target.
extends(target, source) ==
    [key \in Keys(target) \cup Keys(source) |-> IF key \in Keys(source) THEN source[key] ELSE target[key]]

\* copyTargets leaving targetOps to refer to the caller's own object.
copyTargetsAliased(given) ==
    [ref |-> "caller", caller |-> given, fresh |-> EmptyObject, threw |-> FALSE, error |-> ""]

\* Line 119: the heap at the start of getTargets.  `caller` is the object the
\* caller passed, `fresh` the new object, and ref names the one targetOps
\* refers to.
copyTargets(given) ==
    [ref |-> "fresh", caller |-> given, fresh |-> extends(EmptyObject, given), threw |-> FALSE, error |-> ""]

\* Lines 121-123: the node shorthand, rewritten in the object targetOps
\* refers to.
rewriteNode(targetOps) ==
    IF Get(targetOps, "node") = Bool(TRUE) \/ Get(targetOps, "node") = Str("current")
    THEN Put(targetOps, "node", getCurrentNodeVersion)
    ELSE targetOps

nodeStep(heap) == [heap EXCEPT ![heap.ref] = rewriteNode(@)]

\* rewriteElectron without the delete of line 128.
rewriteElectronKept(targetOps, chromeVersion) == Put(targetOps, "chrome", chromeVersion)

\* Lines 127-128, once electronVersionToChromeVersion has returned.
rewriteElectron(targetOps, chromeVersion) ==
    Delete(Put(targetOps, "chrome", chromeVersion), "electron")

\* Lines 126-129, chrome being what electronVersionToChromeVersion does.
electronWith(heap, chrome) ==
    IF chrome.threw THEN [heap EXCEPT !.threw = TRUE, !.error = chrome.error]
    ELSE [heap EXCEPT ![heap.ref] = rewriteElectron(@, chrome.value)]

electronStep(heap) ==
    IF Truthy(Get(heap[heap.ref], "electron"))
    THEN electronWith(heap, electronVersionToChromeVersion(heap[heap.ref].electron))
    ELSE heap

\* Lines 131-136.  The result adds `caller`, the caller's object as the call
\* leaves it.
browsersStep(heap, browsers) ==
    IF heap.threw
    THEN [threw |-> TRUE, error |-> heap.error, value |-> Undefined, caller |-> heap.caller]
    ELSE IF isBrowsersQueryValid(Get(heap[heap.ref], "browsers"))
    THEN [threw |-> FALSE, error |-> "",
          value |-> mergeBrowsers(getLowestVersions(browsers), heap[heap.ref]), caller |-> heap.caller]
    ELSE [threw |-> FALSE, error |-> "", value |-> heap[heap.ref], caller |-> heap.caller]

\* getTargets(targets), with browsers standing for the releases browserslist
\* returns for targets.browsers.  (A call without an argument is the call
\* with EmptyObject, line 118.)
getTargets(given, browsers) == browsersStep(electronStep(nodeStep(copyTargets(given))), browsers)

\* isPluginRequired(supportedEnvironments, plugin), with browsers standing
\* for the releases browserslist returns should the call normalise its
\* targets itself.
isPluginRequired(given, entry, browsers) ==
    requiredForTargets(IF Truthy(Get(given, "browsers"))
                       THEN getTargets(given, browsers) ELSE Returned(given),
                       entry)

---------------------------------------------------------------------------
(* The tables and the option validation buildPreset imports *)

\* Object.keys(pluginList) and data/plugins.json.
pluginNames == <<"transform-es2015-arrow-functions", "transform-regenerator">>
pluginList ==
       ("transform-es2015-arrow-functions" :> (("chrome" :> Ver(49, 0)) @@ ("node" :> Ver(6, 0))))
    @@ ("transform-regenerator" :> (("chrome" :> Ver(50, 0)) @@ ("node" :> Ver(6, 5))))

\* Object.keys(builtInsList) and data/built-ins.json.
builtInNames == <<"es6.map", "es7.object.values">>
builtInsList ==
       ("es6.map" :> (("chrome" :> Ver(50, 0)) @@ ("node" :> Ver(6, 5))))
    @@ ("es7.object.values" :> (("chrome" :> Ver(54, 0)) @@ ("node" :> Ver(7, 0))))

\* ./default-includes
defaultInclude == <<"web.timers">>

\* ./module-transformations
moduleTransformations ==
       ("amd" :> "transform-es2015-modules-amd")
    @@ ("commonjs" :> "transform-es2015-modules-commonjs")
    @@ ("systemjs" :> "transform-es2015-modules-systemjs")
    @@ ("umd" :> "transform-es2015-modules-umd")

\* ./normalize-options.js: the options validated.  `modules` must be false
\* or one of the module systems.
normalizeOptions(o) ==
    IF o.modules # Bool(FALSE) /\ ~(o.modules.t = "string" /\ o.modules.s \in DOMAIN moduleTransformations)
    THEN Threw("Invalid Option: the 'modules' option")
    ELSE Returned([debug |-> o.debug, loose |-> o.loose, moduleType |-> o.modules,
                   useBuiltIns |-> o.useBuiltIns, targets |-> o.targets,
                   include |-> o.include, exclude |-> o.exclude])

---------------------------------------------------------------------------
(* buildPreset, src/index.js:152-217 *)

\* /^(es\d+|web)\./ on the characters of a name.
matchesBuiltInChars(cs) ==
    LET es == IF Len(cs) >= 2 /\ SubSeq(cs, 1, 2) = <<"e", "s">> /\ DigitRun(Rest(cs, 2)) > 0
              THEN 2 + DigitRun(Rest(cs, 2)) ELSE 0
        web == IF Len(cs) >= 3 /\ SubSeq(cs, 1, 3) = <<"w", "e", "b">> THEN 3 ELSE 0
        dotAfter(k) == k > 0 /\ Len(cs) > k /\ cs[k + 1] = "."
    IN  dotAfter(es) \/ dotAfter(web)

\* opt.match(/^(es\d+|web)\./)
matchesBuiltIn(opt) == matchesBuiltInChars(Chars(opt))

\* Lines 152-156, the names that match being `builtIn`.
partition(list, builtIn) ==
    [all |-> list,
     plugins |-> SelectSeq(list, LAMBDA opt : opt \notin builtIn),
     builtIns |-> SelectSeq(list, LAMBDA opt : opt \in builtIn)]

transformIncludesAndExculdes(list) == partition(list, {opt \in Range(list) : matchesBuiltIn(opt)})

\* Lines 166-167 and 171-172, the calls of the filter callback being `calls`:
\* the names kept, or the throw of a call that throws.
keepRequired(names, calls) ==
    IF \E name \in Range(names) : calls[name].threw
    THEN Threw("Target version must be a number")
    ELSE Returned(SelectSeq(names, LAMBDA name : calls[name].value))

filterRequired(names, list, normalized, browsers) ==
    keepRequired(names, [name \in Range(names) |-> isPluginRequired(normalized, list[name], browsers)])

\* Lines 173-175.
selectPolyfills(required, exclude, include) ==
    SelectSeq(required \o defaultInclude, LAMBDA name : name \notin Range(exclude.builtIns))
        \o include.builtIns

\* selectTransformations excluding after it has included.
selectTransformationsExcludeLast(transformations, exclude, include) ==
    SelectSeq(transformations \o include.plugins, LAMBDA name : name \notin Range(exclude.plugins))

\* Lines 196-198.
selectTransformations(transformations, exclude, include) ==
    SelectSeq(transformations, LAMBDA name : name \notin Range(exclude.plugins))
        \o include.plugins

\* logDiagnostics without the assignment of line 179.
logDiagnosticsNoLatch(debug, logged) ==
    [hasBeenLogged |-> logged, printed |-> debug /\ ~logged]

\* logDiagnostics setting the latch whether or not debug is on.
logDiagnosticsAlwaysLatch(debug, logged) ==
    [hasBeenLogged |-> TRUE, printed |-> debug /\ ~logged]

\* Lines 178-194: the latch after the block, and whether the block printed.
logDiagnostics(debug, logged) ==
    IF debug /\ ~logged
    THEN [hasBeenLogged |-> TRUE, printed |-> TRUE]
    ELSE [hasBeenLogged |-> logged, printed |-> FALSE]

RECURSIVE unitsOf(_, _)
unitsOf(names, loose) ==
    IF names = <<>> THEN <<>>
    ELSE <<[require |-> Head(names), options |-> [loose |-> loose]]>> \o unitsOf(Tail(names), loose)

\* Line 200.
regeneratorOf(allTransformations) == "transform-regenerator" \in Range(allTransformations)

\* assemble pushing the module transform after the transformations.
assembleModuleLate(moduleType, allTransformations, loose, useBuiltIns, polyfills, regenerator) ==
    [plugins |->
        unitsOf(allTransformations, loose)
        \o unitsOf(IF moduleType # Bool(FALSE) /\ moduleType.s \in DOMAIN moduleTransformations
                   THEN <<moduleTransformations[moduleType.s]>> ELSE <<>>, loose)
        \o (IF useBuiltIns
            THEN <<[require |-> "transformPolyfillRequirePlugin",
                    options |-> [polyfills |-> polyfills, regenerator |-> regenerator]]>>
            ELSE <<>>)]

\* Lines 201-216: require("babel-plugin-<name>") is held as <name>.
assemble(moduleType, allTransformations, loose, useBuiltIns, polyfills, regenerator) ==
    [plugins |->
        unitsOf(IF moduleType # Bool(FALSE) /\ moduleType.s \in DOMAIN moduleTransformations
                THEN <<moduleTransformations[moduleType.s]>> ELSE <<>>, loose)
        \o unitsOf(allTransformations, loose)
        \o (IF useBuiltIns
            THEN <<[require |-> "transformPolyfillRequirePlugin",
                    options |-> [polyfills |-> polyfills, regenerator |-> regenerator]]>>
            ELSE <<>>)]

\* What a buildPreset call that throws leaves: nothing printed, the latch as
\* it was.
failed(e, logged) ==
    [threw |-> TRUE, error |-> e, value |-> Undefined, hasBeenLogged |-> logged, printed |-> FALSE]

\* Lines 178-216, with the lists lines 166-176 computed.
finish(validatedOptions, allTransformations, polyfills, logging) ==
    [threw |-> FALSE, error |-> "",
     value |-> assemble(validatedOptions.moduleType, allTransformations, validatedOptions.loose,
                        validatedOptions.useBuiltIns, polyfills, regeneratorOf(allTransformations)),
     hasBeenLogged |-> logging.hasBeenLogged, printed |-> logging.printed]

\* Lines 166-216, with the calls of lines 162-164 made; `required` is the
\* outcome of the filter of lines 171-172.
compose(validatedOptions, include, exclude, transformations, required, logged) ==
    IF transformations.threw THEN failed(transformations.error, logged)
    ELSE IF required.threw THEN failed(required.error, logged)
    ELSE finish(validatedOptions,
                selectTransformations(transformations.value, exclude, include),
                IF validatedOptions.useBuiltIns
                THEN selectPolyfills(required.value, exclude, include) ELSE <<>>,
                logDiagnostics(validatedOptions.debug, logged))

\* Lines 163-216, `normalized` being what getTargets does at line 162.
select(validatedOptions, normalized, browsers, logged) ==
    IF normalized.threw THEN failed(normalized.error, logged)
    ELSE compose(validatedOptions,
                 transformIncludesAndExculdes(validatedOptions.include),
                 transformIncludesAndExculdes(validatedOptions.exclude),
                 filterRequired(pluginNames, pluginList, normalized.value, browsers),
                 IF validatedOptions.useBuiltIns
                 THEN filterRequired(builtInNames, builtInsList, normalized.value, browsers)
                 ELSE Returned(<<>>),
                 logged)

\* Lines 160-216, `validated` being what normalizeOptions does at line 159.
build(validated, browsers, logged) ==
    IF validated.threw THEN failed(validated.error, logged)
    ELSE select(validated.value, getTargets(validated.value.targets, browsers), browsers, logged)

\* buildPreset(context, opts) in a process whose latch is `logged`.  The
\* result adds the latch as the call leaves it and whether it printed.
buildPreset(o, browsers, logged) == build(normalizeOptions(o), browsers, logged)

---------------------------------------------------------------------------
(* The inputs the calls are made with *)

MaxReleases == 3    \* releases in one browserslist result
MaxOverrides == 2   \* names in one include or exclude list
MaxBuilds == 4      \* buildPreset calls in one process

RECURSIVE SeqsUpTo(_, _)
SeqsUpTo(S, n) ==
    IF n = 0 THEN {<<>>}
    ELSE SeqsUpTo(S, n - 1) \cup {Append(q, x) : q \in SeqsUpTo(S, n - 1), x \in S}

\* An object from the values given for its keys, Undefined leaving the key out.
ObjectOf(fields) == [k \in {x \in DOMAIN fields : fields[x] # Undefined} |-> fields[k]]

\* "chrome 49", "ios_saf 9.0-9.2", ...: releases of browsers the name map
\* knows and of one it does not, with versions that are numbers, ranges and words.
Release(name, version) == [name |-> name, version |-> version]
Releases ==
    { Release("chrome", "49"), Release("chrome", "50"), Release("chrome", "all"),
      Release("ios_saf", "9.0-9.2"), Release("ios_saf", "50"),
      Release("android", "49"), Release("android", "50") }
ReleaseLists == SeqsUpTo(Releases, MaxReleases)

NodeValues == {Undefined, Bool(TRUE), Str("current"), Ver(6, 5), Str("6")}
ElectronValues == {Undefined, Str("1"), Ver(1, 3), Str("1.3.2"), Str("99.9"), Str("abc"), Num(0)}
BrowsersValues == {Undefined, Str("last 2 versions"), Arr("chrome 49, ios_saf 9"), Obj("{}")}
ChromeValues == {Undefined, Ver(50, 0), Str("50")}

RawTargets ==
    {ObjectOf([node |-> n, electron |-> e, browsers |-> b, chrome |-> c]) :
        n \in NodeValues, e \in ElectronValues, b \in BrowsersValues, c \in ChromeValues}

\* browserslist is called only for a valid query.
ResultsFor(t) == IF isBrowsersQueryValid(Get(t, "browsers")) THEN ReleaseLists ELSE {<<>>}

TargetVersions == {Undefined, Num(0), Ver(49, 0), Ver(49, 5), Ver(50, 0), Str("50")}
CanonicalTargets ==
    {ObjectOf([chrome |-> c, ios |-> i, node |-> n]) :
        c \in TargetVersions, i \in TargetVersions, n \in TargetVersions}
UnnormalizedTargets ==
    {ObjectOf([browsers |-> b, electron |-> e, chrome |-> c]) :
        b \in BrowsersValues \ {Undefined}, e \in {Undefined, Str("1"), Str("99.9")},
        c \in {Undefined, Str("50")}}

\* A capability entry gives versions, which are positive numbers.
ImplementedVersions == {Undefined, Ver(49, 0), Ver(49, 5), Ver(50, 0)}
CapabilityEntries ==
    {ObjectOf([chrome |-> c, ios |-> i, node |-> n]) :
        c \in ImplementedVersions, i \in ImplementedVersions, n \in ImplementedVersions}

OverrideNames == {"transform-regenerator", "es6.map", "web.timers"}
OverrideLists == SeqsUpTo(OverrideNames, MaxOverrides)

BuildTargets ==
    { EmptyObject,
      ObjectOf([chrome |-> Ver(50, 0)]),
      ObjectOf([chrome |-> Ver(49, 0), node |-> Str("current")]),
      ObjectOf([browsers |-> Str("last 2 versions"), node |-> Ver(6, 5)]),
      ObjectOf([electron |-> Str("99.9")]),
      ObjectOf([chrome |-> Str("50")]) }

BuildOptions ==
    [debug : BOOLEAN, loose : BOOLEAN, modules : {Bool(FALSE), Str("commonjs"), Str("bogus")},
     useBuiltIns : BOOLEAN, targets : BuildTargets, include : OverrideLists, exclude : OverrideLists]

\* The options of a process that builds several presets.
ProcessOptions ==
    [debug : BOOLEAN, loose : {FALSE}, modules : {Str("commonjs"), Str("bogus")},
     useBuiltIns : BOOLEAN,
     targets : {ObjectOf([chrome |-> Ver(50, 0)]), ObjectOf([electron |-> Str("99.9")]),
                ObjectOf([chrome |-> Str("50")])},
     include : {<<>>}, exclude : {<<>>}]

NoOptions ==
    [debug |-> FALSE, loose |-> FALSE, modules |-> Bool(FALSE), useBuiltIns |-> FALSE,
     targets |-> EmptyObject, include |-> <<>>, exclude |-> <<>>]
NoCall == [op |-> "none", threw |-> FALSE, error |-> "", value |-> Undefined]

---------------------------------------------------------------------------
(* The calls *)

Idle ==
    /\ outcome = NoCall
    /\ hasBeenLogged = FALSE
    /\ printed = FALSE
    /\ history = <<>>

Outcome(op, r) == [op |-> op, threw |-> r.threw, error |-> r.error, value |-> r.value]

\* The call has done r: the caller sees its outcome, and its own object as
\* the call left it.
GetTargetsDid(r) ==
    /\ outcome' = Outcome("getTargets", r)
    /\ targets' = r.caller

CallGetTargets ==
    /\ outcome.op = "none"
    /\ GetTargetsDid(getTargets(targets, queryResult))
    /\ UNCHANGED <<queryResult, plugin, opts, hasBeenLogged, printed, history>>

CallIsPluginRequired ==
    /\ outcome.op = "none"
    /\ outcome' = Outcome("isPluginRequired", isPluginRequired(targets, plugin, queryResult))
    /\ UNCHANGED <<targets, queryResult, plugin, opts, hasBeenLogged, printed, history>>

\* The call with options o has done r.
BuildPresetDid(o, r) ==
    /\ outcome' = Outcome("buildPreset", r)
    /\ hasBeenLogged' = r.hasBeenLogged
    /\ printed' = r.printed
    /\ history' = Append(history, [debug |-> o.debug, threw |-> r.threw, error |-> r.error,
                                   before |-> hasBeenLogged, after |-> r.hasBeenLogged,
                                   printed |-> r.printed])
    /\ UNCHANGED <<targets, plugin>>

\* One buildPreset call with options o.
BuildPreset(o, browsers) == BuildPresetDid(o, buildPreset(o, browsers, hasBeenLogged))

CallBuildPreset ==
    /\ outcome.op = "none"
    /\ BuildPreset(opts, queryResult)
    /\ UNCHANGED <<opts, queryResult>>

\* A process calls buildPreset again and again, each time with its own options.
NextBuild ==
    /\ Len(history) < MaxBuilds
    /\ \E o \in ProcessOptions :
        /\ opts' = o
        /\ queryResult' = <<>>
        /\ BuildPreset(o, <<>>)

\* A process that builds presets.
Init ==
    /\ Idle
    /\ targets = EmptyObject
    /\ queryResult = <<>>
    /\ plugin = EmptyObject
    /\ opts = NoOptions
Next == NextBuild
Spec == Init /\ [][Next]_vars

\* One call of getTargets, on any of the raw targets.
InitTargets ==
    /\ Idle
    /\ targets \in RawTargets
    /\ queryResult \in ResultsFor(targets)
    /\ plugin = EmptyObject
    /\ opts = NoOptions
NextTargets == CallGetTargets
SpecTargets == InitTargets /\ [][NextTargets]_vars

\* One call of isPluginRequired, on canonical targets or on targets it has to
\* normalise itself.
InitRequired ==
    /\ Idle
    /\ targets \in CanonicalTargets \cup UnnormalizedTargets
    /\ queryResult \in ResultsFor(targets)
    /\ plugin \in CapabilityEntries
    /\ opts = NoOptions
NextRequired == CallIsPluginRequired
SpecRequired == InitRequired /\ [][NextRequired]_vars

\* One call of buildPreset in a fresh process, on any of the options.
InitCompose ==
    /\ Idle
    /\ targets = EmptyObject
    /\ opts \in BuildOptions
    /\ queryResult \in (IF "browsers" \in DOMAIN opts.targets
                        THEN {<<>>, <<Release("chrome", "49")>>} ELSE {<<>>})
    /\ plugin = EmptyObject
NextCompose == CallBuildPreset
SpecCompose == InitCompose /\ [][NextCompose]_vars

---------------------------------------------------------------------------
(* isPluginRequired, checked under SpecRequired *)

Called(op) == outcome.op = op
IsCanonical(T) == "browsers" \notin DOMAIN T /\ \A e \in DOMAIN T : T[e].t = "number"
StringVersioned(T) == {e \in DOMAIN T : T[e].t = "string"}

\* C1: on canonical targets T (numbers, no browsers key) isPluginRequired(T, C)
\* returns, and returns true exactly when T is empty or some environment of T
\* has no entry in C or a targeted version below C's; equal versions do not
\* make the feature required.
C1_RequiredIffUnsupportedSomewhere ==
    (Called("isPluginRequired") /\ IsCanonical(targets)) =>
        /\ ~outcome.threw
        /\ outcome.value =
              (\/ DOMAIN targets = {}
               \/ \E e \in DOMAIN targets : e \notin DOMAIN plugin \/ targets[e].n < plugin[e].n)

\* C1's case: every targeted environment is supported, one of them at exactly
\* the targeted version, and the call returned false.
C1_Witness ==
    /\ Called("isPluginRequired") /\ IsCanonical(targets)
    /\ Cardinality(DOMAIN targets) >= 2
    /\ \A e \in DOMAIN targets : e \in DOMAIN plugin
    /\ \E e \in DOMAIN targets : targets[e] = plugin[e]
    /\ \E e \in DOMAIN targets : targets[e].n > plugin[e].n
    /\ ~outcome.threw /\ outcome.value = FALSE

---------------------------------------------------------------------------
(* getTargets, checked under SpecTargets *)

\* What the electron values of the model translate to: the Chromium version
\* of their MAJOR.MINOR, or why there is none.
ElectronTranslation ==
       (Str("1") :> Ver(49, 0))
    @@ (Ver(1, 3) :> Ver(52, 0))
    @@ (Str("1.3.2") :> Ver(52, 0))
ElectronUnmapped == {Str("99.9")}
ElectronMalformed == {Str("abc")}
UnsupportedVersionError == "Electron version is either too old or too new"
MalformedVersionError == "Electron version must be a semver version"

HasElectron(T) == "electron" \in DOMAIN T
ElectronApplies(T) == HasElectron(T) /\ T.electron # Num(0)
HasValidQuery(T) == "browsers" \in DOMAIN T /\ T.browsers.t \in {"string", "array"}
\* A version given as a string on a key that names an environment directly.
DirectStrings(T) ==
    {k \in DOMAIN T \ {"browsers", "electron"} : T[k].t = "string" /\ T[k] # Str("current")}

\* C2 as stated: what getTargets returns has no electron key, no browsers key
\* and only numbers as values, and a string version on a direct key makes the
\* call fail.
C2_ReturnsOnlyNumbers ==
    Called("getTargets") =>
        /\ ~outcome.threw =>
              /\ "electron" \notin DOMAIN outcome.value
              /\ "browsers" \notin DOMAIN outcome.value
              /\ \A k \in DOMAIN outcome.value : outcome.value[k].t = "number"
        /\ DirectStrings(targets) # {} => outcome.threw

\* C2, amended: what getTargets returns has no electron key when the electron
\* given was truthy and no browsers key when the browsers given was a string
\* or an array; a falsy electron and a browsers of another shape stay as
\* given.  Every value is a number or the value the caller gave for that key.
\* A string version on a direct key never makes the call fail (only an
\* electron version without translation does) and is returned as given, with
\* one exception: a string on chrome beside a truthy electron is replaced by
\* the electron's translation, a number.
C2_ReturnsNumbersOrWhatWasGiven ==
    Called("getTargets") =>
        /\ outcome.threw <=>
              (ElectronApplies(targets) /\ targets.electron \notin DOMAIN ElectronTranslation)
        /\ ~outcome.threw =>
              /\ "electron" \in DOMAIN outcome.value <=> (HasElectron(targets) /\ ~ElectronApplies(targets))
              /\ "browsers" \in DOMAIN outcome.value <=>
                    ("browsers" \in DOMAIN targets /\ ~HasValidQuery(targets))
              /\ \A k \in DOMAIN outcome.value :
                    \/ outcome.value[k].t = "number"
                    \/ k \in DOMAIN targets /\ outcome.value[k] = targets[k]
              /\ \A k \in DirectStrings(targets) :
                    /\ k \in DOMAIN outcome.value
                    /\ outcome.value[k] = IF k = "chrome" /\ ElectronApplies(targets)
                                          THEN ElectronTranslation[targets.electron]
                                          ELSE targets[k]

\* C2's case: a call given string versions on node and chrome, a truthy
\* electron and a browsers value that is no query returned the node string
\* and the browsers value as given, chrome as the electron's translation,
\* and no electron.
C2_Witness ==
    /\ Called("getTargets") /\ ~outcome.threw
    /\ DirectStrings(targets) = {"node", "chrome"}
    /\ ElectronApplies(targets)
    /\ "browsers" \in DOMAIN targets /\ ~HasValidQuery(targets)
    /\ outcome.value.node = targets.node /\ outcome.value.node.t = "string"
    /\ outcome.value.chrome = ElectronTranslation[targets.electron]
    /\ outcome.value.browsers = targets.browsers
    /\ "electron" \notin DOMAIN outcome.value

\* The names the name map keeps, and the integer each release version starts with.
NormalizedName == ("chrome" :> "chrome") @@ ("ios_saf" :> "ios")
IntegerVersion == ("49" :> 490) @@ ("50" :> 500) @@ ("9.0-9.2" :> 90)
Counted(name) ==
    {r \in Range(queryResult) :
        /\ r.name \in DOMAIN NormalizedName /\ NormalizedName[r.name] = name
        /\ r.version \in DOMAIN IntegerVersion}
QueryVersions(name) == {IntegerVersion[r.version] : r \in Counted(name)}
QueryNames == {name \in {"chrome", "ios"} : Counted(name) # {}}
Minimum(S) == CHOOSE x \in S : \A y \in S : x <= y

\* The target map as the node and electron rewrites leave it, less browsers.
DirectKeys(T) ==
    IF ElectronApplies(T) THEN ((DOMAIN T \ {"browsers", "electron"}) \cup {"chrome"})
    ELSE DOMAIN T \ {"browsers"}
DirectValue(T, k) ==
    IF k = "chrome" /\ ElectronApplies(T) THEN ElectronTranslation[T.electron]
    ELSE IF k = "node" /\ T[k] \in {Bool(TRUE), Str("current")} THEN Ver(6, 9)
    ELSE T[k]

\* C4: with a valid browsers query getTargets returns, for each normalized
\* name among the releases, the minimum of the integer versions of its
\* releases (releases of unknown names or without a numeric version count for
\* nothing), overlaid with every key of the processed targets but browsers,
\* the direct key's value winning.
C4_MinimumsUnderDirectKeys ==
    (Called("getTargets") /\ HasValidQuery(targets) /\ ~outcome.threw) =>
        /\ DOMAIN outcome.value = DirectKeys(targets) \cup QueryNames
        /\ \A k \in DOMAIN outcome.value :
              outcome.value[k] = IF k \in DirectKeys(targets) THEN DirectValue(targets, k)
                                 ELSE Num(Minimum(QueryVersions(k)))

\* C4's case: the query resolved to releases of one browser with the older
\* one last and to a release that counts for nothing, beside a direct key
\* for another browser of the query.
C4_Witness ==
    /\ Called("getTargets") /\ HasValidQuery(targets) /\ ~outcome.threw
    /\ Len(queryResult) = 3
    /\ queryResult[1] = Release("ios_saf", "50") /\ queryResult[3] = Release("ios_saf", "9.0-9.2")
    /\ queryResult[2] = Release("chrome", "49")
    /\ "chrome" \in DOMAIN targets /\ targets.chrome = Ver(50, 0) /\ ~HasElectron(targets)
    /\ outcome.value.ios = Ver(9, 0) /\ outcome.value.chrome = Ver(50, 0)

\* C5 as stated: with an electron key getTargets either returns a map whose
\* chrome is the translated value and that has no electron, or there is no
\* translation and it fails with the unsupported-version error.
C5_TranslatesOrUnsupported ==
    (Called("getTargets") /\ HasElectron(targets)) =>
        IF targets.electron \in DOMAIN ElectronTranslation
        THEN /\ ~outcome.threw
             /\ "chrome" \in DOMAIN outcome.value
             /\ outcome.value.chrome = ElectronTranslation[targets.electron]
             /\ "electron" \notin DOMAIN outcome.value
        ELSE outcome.threw /\ outcome.error = UnsupportedVersionError

\* C5, amended: with an electron key whose value is truthy getTargets either
\* (a) returns a map whose chrome is the translated value, whatever chrome was
\* given or derived from the query, and that has no electron, or (b) finds no
\* translation for the MAJOR.MINOR and fails with the unsupported-version
\* error, or (c) finds no leading MAJOR.MINOR in the version and fails with
\* the malformed-version error.  A falsy electron is left in the map as given
\* and nothing is translated.
C5_TranslatesOrFailsTwoWays ==
    (Called("getTargets") /\ HasElectron(targets)) =>
        CASE targets.electron \in DOMAIN ElectronTranslation ->
                /\ ~outcome.threw
                /\ "chrome" \in DOMAIN outcome.value
                /\ outcome.value.chrome = ElectronTranslation[targets.electron]
                /\ "electron" \notin DOMAIN outcome.value
          [] targets.electron \in ElectronUnmapped ->
                outcome.threw /\ outcome.error = UnsupportedVersionError
          [] targets.electron \in ElectronMalformed ->
                outcome.threw /\ outcome.error = MalformedVersionError
          [] OTHER ->
                /\ ~outcome.threw
                /\ "electron" \in DOMAIN outcome.value
                /\ outcome.value.electron = targets.electron
                /\ "chrome" \in DOMAIN targets =>
                      ("chrome" \in DOMAIN outcome.value /\ outcome.value.chrome = targets.chrome)

\* C5's case: electron "1" read as "1.0", over a chrome given directly and a
\* chrome release of the query.
C5_Witness ==
    /\ Called("getTargets") /\ ~outcome.threw
    /\ HasElectron(targets) /\ targets.electron = Str("1")
    /\ "chrome" \in DOMAIN targets /\ targets.chrome = Ver(50, 0)
    /\ HasValidQuery(targets) /\ Release("chrome", "50") \in Range(queryResult)
    /\ outcome.value.chrome = Ver(49, 0)
    /\ "electron" \notin DOMAIN outcome.value

\* C9: no step changes the object the caller handed to getTargets: after the
\* call, returned or failed, it has the keys and values it had before.
C9_CallerTargetsUntouched == [][targets' = targets]_vars

\* C9's case: the call rewrote node and electron and dropped browsers in
\* what it returned, and the caller's object still has all three as given.
C9_Witness ==
    /\ Called("getTargets") /\ ~outcome.threw
    /\ DOMAIN targets = {"node", "electron", "browsers", "chrome"}
    /\ targets.node = Bool(TRUE) /\ targets.electron = Ver(1, 3) /\ targets.chrome = Str("50")
    /\ HasValidQuery(targets)
    /\ outcome.value.node = Ver(6, 9) /\ outcome.value.chrome = Ver(52, 0)
    /\ DOMAIN outcome.value \cap {"electron", "browsers"} = {}

---------------------------------------------------------------------------
(* isPluginRequired and string versions, checked under SpecRequired *)

\* isPluginRequired normalises T itself when T has a browsers key (every
\* browsers value of the inputs is truthy).
Normalises(T) == "browsers" \in DOMAIN T
NormalisationFails(T) ==
    Normalises(T) /\ ElectronApplies(T) /\ T.electron \notin DOMAIN ElectronTranslation
\* The environments whose version is a string in the map isPluginRequired
\* iterates: T itself, or what the normalisation of T leaves of T's strings.
IteratedStrings(T) ==
    IF Normalises(T) THEN {k \in DirectStrings(T) : ~(k = "chrome" /\ ElectronApplies(T))}
    ELSE StringVersioned(T)
StringVersionError == "Target version must be a number"

\* C3 as stated: isPluginRequired(T, C) fails whenever a targeted version of T
\* is a string, whatever C holds.
C3_ThrowsOnAnyStringVersion ==
    (Called("isPluginRequired") /\ ~Normalises(targets) /\ StringVersioned(targets) # {})
        => outcome.threw

\* C3, amended: isPluginRequired(T, C) iterates T, or getTargets(T) when T has
\* a browsers key.  It fails exactly when that normalisation fails or some
\* environment has a string version in the iterated map and an entry in C,
\* whatever the other environments decide; the latter failure is the
\* string-version error.  A string version on an environment without entry
\* in C is not examined: the call then returns true unless it fails for
\* another reason.
C3_ThrowsIffStringVersionIsCompared ==
    Called("isPluginRequired") =>
        /\ outcome.threw <=>
              \/ NormalisationFails(targets)
              \/ IteratedStrings(targets) \cap DOMAIN plugin # {}
        /\ (outcome.threw /\ ~NormalisationFails(targets)) => outcome.error = StringVersionError
        /\ (IteratedStrings(targets) # {} /\ ~outcome.threw) => outcome.value = TRUE

\* C3's case: a string version whose environment C knows made the call fail,
\* beside a string version whose environment C does not know.
C3_Witness ==
    /\ Called("isPluginRequired") /\ ~Normalises(targets)
    /\ StringVersioned(targets) \cap DOMAIN plugin # {}
    /\ StringVersioned(targets) \ DOMAIN plugin # {}
    /\ outcome.threw /\ outcome.error = StringVersionError

---------------------------------------------------------------------------
(* The list buildPreset returns, checked under SpecCompose *)

PolyfillPlugin == "transformPolyfillRequirePlugin"
BuiltInOverrides == {"es6.map", "web.timers"}
Built == Called("buildPreset") /\ ~outcome.threw
Units == outcome.value.plugins
IncludedAndExcluded == Range(opts.include) \cap Range(opts.exclude)
PolyfillUnits == {i \in DOMAIN Units : Units[i].require = PolyfillPlugin}
\* The transformations by name, in the order of the list.
TransformUnits == SelectSeq(Units, LAMBDA u : u.require \notin {PolyfillPlugin} \cup Range(moduleTransformations))

\* C6: a name that is both included and excluded is selected: a plugin name
\* is among the transformations of the list, a built-in name is, when
\* useBuiltIns is on, among the polyfills of the polyfill unit.
C6_IncludeWinsOverExclude ==
    Built =>
        \A name \in IncludedAndExcluded :
            IF name \in BuiltInOverrides
            THEN opts.useBuiltIns =>
                    \E i \in PolyfillUnits : name \in Range(Units[i].options.polyfills)
            ELSE \E i \in DOMAIN TransformUnits : TransformUnits[i].require = name

\* C6's case: a plugin name and a built-in name, each included and excluded,
\* with useBuiltIns on.
C6_Witness ==
    /\ Built /\ opts.useBuiltIns
    /\ IncludedAndExcluded = {"transform-regenerator", "es6.map"}
    /\ opts.targets = EmptyObject

\* The transformations C8 expects: the required ones that are not excluded,
\* then the included plugin names.
RequiredFor(T) ==
    SelectSeq(pluginNames,
              LAMBDA name : DOMAIN T = {} \/ \E e \in DOMAIN T :
                                e \notin DOMAIN pluginList[name] \/ T[e].n < pluginList[name][e].n)
SelectedTransformations ==
    SelectSeq(RequiredFor(getTargets(opts.targets, queryResult).value),
              LAMBDA name : name \notin Range(opts.exclude))
        \o SelectSeq(opts.include, LAMBDA name : name \notin BuiltInOverrides)
ModuleUnits ==
    IF opts.modules = Bool(FALSE) THEN <<>>
    ELSE <<[require |-> moduleTransformations[opts.modules.s], options |-> [loose |-> opts.loose]]>>

\* C8: the list is the module transform (unless moduleType is false), then
\* the selected transformations in order, each configured with {loose},
\* then, exactly when useBuiltIns is on, one polyfill unit, the last element,
\* whose regenerator flag tells whether transform-regenerator is selected.
C8_ListOrder ==
    Built =>
        LET n == Len(ModuleUnits) + Len(SelectedTransformations)
        IN  /\ Len(Units) = n + (IF opts.useBuiltIns THEN 1 ELSE 0)
            /\ SubSeq(Units, 1, Len(ModuleUnits)) = ModuleUnits
            /\ \A i \in 1..Len(SelectedTransformations) :
                  Units[Len(ModuleUnits) + i] =
                      [require |-> SelectedTransformations[i], options |-> [loose |-> opts.loose]]
            /\ PolyfillUnits = (IF opts.useBuiltIns THEN {Len(Units)} ELSE {})
            /\ \A i \in PolyfillUnits :
                  Units[i].options.regenerator = ("transform-regenerator" \in Range(SelectedTransformations))

\* C8's case: a module transform, a required transformation, an included one
\* and the polyfill unit, transform-regenerator coming only from include.
C8_Witness ==
    /\ Built /\ opts.useBuiltIns /\ opts.loose
    /\ opts.modules = Str("commonjs")
    /\ opts.targets = EmptyObject
    /\ opts.exclude = <<"transform-regenerator">>
    /\ opts.include = <<"es6.map", "transform-regenerator">>
    /\ Len(Units) = 4
    /\ Units[4].options.regenerator

---------------------------------------------------------------------------
(* The debug latch over the builds of a process, checked under Spec *)

Builds == DOMAIN history
Quiet(b) == ~b.debug \/ b.threw
PrintingBuilds == {i \in Builds : history[i].printed}

\* C7: at most one build of the process prints; the latch is set by the build
\* that prints and by no other, and no build resets it; of two consecutive
\* builds with debug on the second never prints when the first returned, and
\* the first prints when the latch was unset.
C7_PrintsAtMostOnce ==
    /\ Cardinality(PrintingBuilds) <= 1
    /\ hasBeenLogged = (PrintingBuilds # {})
    /\ \A i \in Builds :
          /\ history[i].before => history[i].after
          /\ history[i].printed <=> (~history[i].before /\ history[i].after)
          /\ history[i].before = (\E j \in 1..(i - 1) : history[j].printed)
    /\ \A i \in Builds : \A j \in Builds :
          (j = i + 1 /\ history[i].debug /\ ~history[i].threw /\ history[j].debug) =>
              /\ ~history[j].printed
              /\ ~history[i].before => history[i].printed

\* C7's case: two consecutive builds with debug on, both returning, the first
\* of them printing.
C7_Witness ==
    \E i \in Builds : \E j \in Builds :
        /\ j = i + 1
        /\ history[i].debug /\ ~history[i].threw /\ history[i].printed
        /\ history[j].debug /\ ~history[j].threw /\ ~history[j].printed

\* C10: a build with debug off, and a build that fails, print nothing and
\* leave the latch as it was; after such a build with the latch unset, the
\* next build with debug on that does not fail prints.
C10_QuietBuildsKeepLatch ==
    /\ \A i \in Builds :
          Quiet(history[i]) => (~history[i].printed /\ history[i].after = history[i].before)
    /\ \A i \in Builds : \A j \in Builds :
          (j = i + 1 /\ Quiet(history[i]) /\ ~history[i].before /\ history[j].debug /\ ~history[j].threw)
              => history[j].printed
    /\ history # <<>> => hasBeenLogged = history[Len(history)].after

\* C10's case: builds with debug on failing in validation, in normalisation
\* and in the requirement decision, and a build with debug off, all before
\* the latch is set; the build after them prints.
C10_Witness ==
    /\ Len(history) = 4
    /\ history[1].debug /\ history[1].error = "Invalid Option: the 'modules' option"
    /\ history[2].debug /\ history[2].error = UnsupportedVersionError
    /\ history[3].debug /\ history[3].error = "Target version must be a number"
    /\ history[4].debug /\ history[4].printed

=============================================================================
